---- MODULE Spec2Model ----
(***************************************************************************)
(* Model of modules/angular2/src/forms/model.ts: the form-control tree     *)
(* (Control, ControlGroup, ControlArray) with its value / validity /       *)
(* pristine bookkeeping and the upward propagation through _parent.        *)
(*                                                                         *)
(* The heap is an arena of MaxNodes objects.  Every public operation is    *)
(* one action that runs the whole synchronous call, the recursive walk     *)
(* through _updateParent included.                                         *)
(***************************************************************************)
EXTENDS Integers, Sequences, FiniteSets, TLC

\* ---------------------------------------------------------------- bounds
MaxNodes == 3
MaxOps == 4
MaxLen == 2
MaxPath == 2

\* the control names and the leaf values the calls are made with
Names == {"a", "b"}
LeafValues == {"null", "1"}

\* ------------------------------------------------------------- constants
VALID == "VALID"
INVALID == "INVALID"
Null == 0

Nodes == 1..MaxNodes

VARIABLES heap, emitted, trace, fault, lastOp, ops

vars == <<heap, emitted, trace, fault, lastOp, ops>>

\* ------------------------------------------------------ value encodings
\* A leaf value, a ControlArray value (a list) and a ControlGroup value (a
\* string map) are kept apart by a tag, as the JS values are by their type.
Scalar(v) == <<"scalar", v>>
ListValue(s) == <<"list", s>>
MapValue(f) == <<"map", f>>
Undefined == <<"undefined", "undefined">>

\* errors: null, or a string map of which the keys are kept
NullErrors == [present |-> FALSE, keys |-> {}]
ErrorMap(ks) == [present |-> TRUE, keys |-> ks]
isPresent(e) == e.present

FreeNode ==
  [kind |-> "free", value |-> Undefined, status |-> "undefined",
   errors |-> NullErrors, pristine |-> TRUE, parent |-> Null,
   validator |-> "none", controls |-> <<>>, optionals |-> <<>>]

Allocated(h) == {n \in Nodes : h[n].kind # "free"}
Containers(h) == {n \in Nodes : h[n].kind \in {"ControlGroup", "ControlArray"}}

\* -------------------------------------------------------- ControlGroup
\* _included with the optional flags ignored
IncludedAlways(h, g, controlName) == TRUE

\* ControlGroup._included
Included(h, g, controlName) ==
  LET isOptional == controlName \in DOMAIN h[g].optionals
  IN  (~isOptional) \/ h[g].optionals[controlName]

\* contains that does not look at the optional flags
ContainsAnyChild(h, g, controlName) == controlName \in DOMAIN h[g].controls

\* ControlGroup.contains
Contains(h, g, controlName) ==
  LET c == controlName \in DOMAIN h[g].controls
  IN  c /\ Included(h, g, controlName)

\* find whose callback stays on the current node when the segment is missing
FindStepStay(h, v, name) ==
  IF v # Null /\ h[v].kind = "ControlGroup" /\ name \in DOMAIN h[v].controls
  THEN h[v].controls[name]
  ELSE v

\* the callback of ControlGroup.find, lines 167-169:
\* v instanceof ControlGroup && isPresent(v.controls[name]) ? v.controls[name] : null
FindStep(h, v, name) ==
  IF v # Null /\ h[v].kind = "ControlGroup" /\ name \in DOMAIN h[v].controls
  THEN h[v].controls[name]
  ELSE Null

\* ListWrapper.reduce(path, callback, init)
RECURSIVE Reduce(_, _, _)
Reduce(h, path, v) ==
  IF path = <<>> THEN v ELSE Reduce(h, Tail(path), FindStep(h, v, Head(path)))

\* ControlGroup.find(path) for a path given as a list of names
Find(h, g, path) == Reduce(h, path, g)

\* A path given as a string is a sequence of characters.
\* StringWrapper.split(path, new RegExp("/")): the pieces between the "/"
RECURSIVE Split(_)
Split(str) ==
  IF \A i \in 1..Len(str) : str[i] # "/"
  THEN <<str>>
  ELSE LET i == CHOOSE k \in 1..Len(str) :
                  str[k] = "/" /\ \A j \in 1..(k - 1) : str[j] # "/"
       IN  <<SubSeq(str, 1, i - 1)>> \o Split(SubSeq(str, i + 1, Len(str)))

\* the key a piece is: the names are single characters, any other piece
\* (the empty one, a longer one) is the key of no child
KeyOf(piece) == IF Len(piece) = 1 THEN piece[1] ELSE ""

\* ControlGroup.find(path) for a path given as a string
FindString(h, g, str) ==
  LET pieces == Split(str)
  IN  Find(h, g, [i \in 1..Len(pieces) |-> KeyOf(pieces[i])])

\* ControlGroup._reduceChildren: the names the callback is applied to
ReduceChildren(h, g) == {name \in DOMAIN h[g].controls : Included(h, g, name)}

\* ControlGroup._reduceValue
ReduceValue(h, g) ==
  MapValue([name \in ReduceChildren(h, g) |-> h[h[g].controls[name]].value])

\* ControlArray._setValueErrorsStatus, line 280: ListWrapper.map(controls, c => c.value)
MapValues(h, a) ==
  ListValue([i \in 1..Len(h[a].controls) |-> h[h[a].controls[i]].value])

\* ------------------------------------------------------------ validators
\* ./validators is imported by model.ts; its functions are applied to a node.
ValidatorsNull(h, n) == NullErrors

ValidatorsRequired(h, n) ==
  IF h[n].value = Scalar("null") THEN ErrorMap({"required"}) ELSE NullErrors

ValidatorsGroup(h, n) ==
  LET ks == UNION {h[h[n].controls[name]].errors.keys :
                     name \in {m \in DOMAIN h[n].controls :
                                 Contains(h, n, m)
                                 /\ isPresent(h[h[n].controls[m]].errors)}}
  IN  IF ks = {} THEN NullErrors ELSE ErrorMap(ks)

ValidatorsArray(h, n) ==
  LET ks == UNION {h[h[n].controls[i]].errors.keys :
                     i \in {j \in 1..Len(h[n].controls) :
                              isPresent(h[h[n].controls[j]].errors)}}
  IN  IF ks = {} THEN NullErrors ELSE ErrorMap(ks)

\* this.validator(this)
Validate(h, n) ==
  CASE h[n].validator = "required" -> ValidatorsRequired(h, n)
    [] h[n].validator = "group" -> ValidatorsGroup(h, n)
    [] h[n].validator = "array" -> ValidatorsArray(h, n)
    [] OTHER -> ValidatorsNull(h, n)

\* the status taken to be VALID whatever the errors
StatusOfAlwaysValid(e) == VALID

\* isPresent(this._errors) ? INVALID : VALID
StatusOf(e) == IF isPresent(e) THEN INVALID ELSE VALID

\* ------------------------------------------------ _setValueErrorsStatus
ControlSetValueErrorsStatus(h, n, v) ==
  LET h1 == [h EXCEPT ![n].value = v]
      h2 == [h1 EXCEPT ![n].errors = Validate(h1, n)]
  IN  [h2 EXCEPT ![n].status = StatusOf(h2[n].errors)]

\* the group value recomputed, errors and status left as they were
GroupSetValueErrorsStatusStale(h, n) == [h EXCEPT ![n].value = ReduceValue(h, n)]

GroupSetValueErrorsStatus(h, n) ==
  LET h1 == [h EXCEPT ![n].value = ReduceValue(h, n)]
      h2 == [h1 EXCEPT ![n].errors = Validate(h1, n)]
  IN  [h2 EXCEPT ![n].status = StatusOf(h2[n].errors)]

ArraySetValueErrorsStatus(h, n) ==
  LET h1 == [h EXCEPT ![n].value = MapValues(h, n)]
      h2 == [h1 EXCEPT ![n].errors = Validate(h1, n)]
  IN  [h2 EXCEPT ![n].status = StatusOf(h2[n].errors)]

\* ----------------------------------------------------- upward propagation
\* A call in progress: the heap, the emissions made so far (node, payload),
\* the steps taken so far in the order of execution, the nodes whose
\* _updateValue has been entered, and whether the recursion has re-entered a
\* node (the parent chain is cyclic, the call never returns and ends in a
\* stack overflow).
Call(h) == [h |-> h, log |-> <<>>, trace |-> <<>>, seen |-> {}, fault |-> "none"]

\* a step of the call on node n: "value" (this._value = ...), "validate"
\* (this._errors = this.validator(this) and the status from it), "dirty"
\* (this._pristine = false) or "emit" (callNext)
Did(st, step, n) == [st EXCEPT !.trace = Append(st.trace, <<step, n>>)]

\* ObservableWrapper.callNext(this._valueChanges, this._value)
CallNext(st, n) ==
  Did([st EXCEPT !.log = Append(st.log, <<n, st.h[n].value>>)], "emit", n)

RECURSIVE GroupUpdateValue(_, _), ArrayUpdateValue(_, _), UpdateParent(_, _)

\* _updateParent that does not call the parent
UpdateParentSkip(st, n) == st

\* AbstractControl._updateParent
UpdateParent(st, n) ==
  LET p == st.h[n].parent
  IN  IF p # Null
      THEN IF st.h[p].kind = "ControlGroup"
           THEN GroupUpdateValue(st, p)
           ELSE ArrayUpdateValue(st, p)
      ELSE st

\* _updateValue that emits after the parent has been updated
GroupUpdateValueEmitLate(st, n) ==
  IF n \in st.seen
  THEN [st EXCEPT !.fault = "StackOverflow"]
  ELSE LET h1 == GroupSetValueErrorsStatus(st.h, n)
           h2 == [h1 EXCEPT ![n].pristine = FALSE]
           s1 == Did(Did(Did(st, "value", n), "validate", n), "dirty", n)
           s2 == [s1 EXCEPT !.h = h2, !.seen = st.seen \cup {n}]
       IN  CallNext(UpdateParent(s2, n), n)

\* ControlGroup._updateValue
GroupUpdateValue(st, n) ==
  IF n \in st.seen
  THEN [st EXCEPT !.fault = "StackOverflow"]
  ELSE LET h1 == GroupSetValueErrorsStatus(st.h, n)
           h2 == [h1 EXCEPT ![n].pristine = FALSE]
           s1 == Did(Did(Did(st, "value", n), "validate", n), "dirty", n)
           s2 == CallNext([s1 EXCEPT !.h = h2, !.seen = st.seen \cup {n}], n)
       IN  UpdateParent(s2, n)

\* _updateValue that emits the value before recomputing it
ArrayUpdateValueEmitFirst(st, n) ==
  IF n \in st.seen
  THEN [st EXCEPT !.fault = "StackOverflow"]
  ELSE LET s0 == CallNext(st, n)
           h1 == ArraySetValueErrorsStatus(s0.h, n)
           h2 == [h1 EXCEPT ![n].pristine = FALSE]
           s1 == Did(Did(Did(s0, "value", n), "validate", n), "dirty", n)
           s2 == [s1 EXCEPT !.h = h2, !.seen = st.seen \cup {n}]
       IN  UpdateParent(s2, n)

\* ControlArray._updateValue
ArrayUpdateValue(st, n) ==
  IF n \in st.seen
  THEN [st EXCEPT !.fault = "StackOverflow"]
  ELSE LET h1 == ArraySetValueErrorsStatus(st.h, n)
           h2 == [h1 EXCEPT ![n].pristine = FALSE]
           s1 == Did(Did(Did(st, "value", n), "validate", n), "dirty", n)
           s2 == CallNext([s1 EXCEPT !.h = h2, !.seen = st.seen \cup {n}], n)
       IN  UpdateParent(s2, n)

\* updateValue that leaves the pristine flag alone
ControlUpdateValueKeepPristine(st, n, v) ==
  LET h1 == ControlSetValueErrorsStatus(st.h, n, v)
      s1 == Did(Did(st, "value", n), "validate", n)
      s2 == CallNext([s1 EXCEPT !.h = h1, !.seen = st.seen \cup {n}], n)
  IN  UpdateParent(s2, n)

\* Control.updateValue
ControlUpdateValue(st, n, v) ==
  LET h1 == ControlSetValueErrorsStatus(st.h, n, v)
      h2 == [h1 EXCEPT ![n].pristine = FALSE]
      s1 == Did(Did(Did(st, "value", n), "validate", n), "dirty", n)
      s2 == CallNext([s1 EXCEPT !.h = h2, !.seen = st.seen \cup {n}], n)
  IN  UpdateParent(s2, n)

\* AbstractControl.updateValidity
RECURSIVE UpdateValidity(_, _)

\* updateValidity that brings the value of a container up to date as well
UpdateValidityWithValue(st, n) ==
  IF n \in st.seen
  THEN [st EXCEPT !.fault = "StackOverflow"]
  ELSE LET h0 == IF st.h[n].kind = "ControlGroup"
                 THEN [st.h EXCEPT ![n].value = ReduceValue(st.h, n)]
                 ELSE IF st.h[n].kind = "ControlArray"
                      THEN [st.h EXCEPT ![n].value = MapValues(st.h, n)]
                      ELSE st.h
           h1 == [h0 EXCEPT ![n].errors = Validate(h0, n)]
           h2 == [h1 EXCEPT ![n].status = StatusOf(h1[n].errors)]
           s2 == [Did(st, "validate", n) EXCEPT !.h = h2, !.seen = st.seen \cup {n}]
       IN  IF h2[n].parent # Null THEN UpdateValidity(s2, h2[n].parent) ELSE s2

\* updateValidity that goes on to the parent only when the status has changed
UpdateValidityStopUnchanged(st, n) ==
  IF n \in st.seen
  THEN [st EXCEPT !.fault = "StackOverflow"]
  ELSE LET h1 == [st.h EXCEPT ![n].errors = Validate(st.h, n)]
           h2 == [h1 EXCEPT ![n].status = StatusOf(h1[n].errors)]
           s2 == [Did(st, "validate", n) EXCEPT !.h = h2, !.seen = st.seen \cup {n}]
       IN  IF h2[n].parent # Null /\ h2[n].status # st.h[n].status
           THEN UpdateValidity(s2, h2[n].parent)
           ELSE s2

UpdateValidity(st, n) ==
  IF n \in st.seen
  THEN [st EXCEPT !.fault = "StackOverflow"]
  ELSE LET h1 == [st.h EXCEPT ![n].errors = Validate(st.h, n)]
           h2 == [h1 EXCEPT ![n].status = StatusOf(h1[n].errors)]
           s2 == [Did(st, "validate", n) EXCEPT !.h = h2, !.seen = st.seen \cup {n}]
       IN  IF h2[n].parent # Null THEN UpdateValidity(s2, h2[n].parent) ELSE s2

\* ------------------------------------------------------------ operations
\* What the last call was, kept to state what holds when it has returned.
\* pre: for exclude, the group as it was on entry; carried over by an include
\* of the same name that follows it directly.  For updateValue, pre.set tells
\* that the call before was the removeAt that took this leaf out of an array.
NoPre == [set |-> FALSE, value |-> Undefined, status |-> "undefined",
          included |-> FALSE, current |-> FALSE]

Op(op, node, name, index, child, val) ==
  [op |-> op, node |-> node, name |-> name, index |-> index,
   child |-> child, val |-> val, pre |-> NoPre]

NoOp == Op("init", Null, "", 0, Null, "")

\* the call has run to its end (or to the stack overflow): publish its result
Return(st, o) ==
  /\ heap' = st.h
  /\ emitted' = st.log
  /\ trace' = st.trace
  /\ fault' = st.fault
  /\ lastOp' = o
  /\ ops' = ops + 1

Running == fault = "none" /\ ops < MaxOps

\* the object a constructor creates
NewNode == CHOOSE n \in Nodes : heap[n].kind = "free" /\ \A m \in 1..(n-1) : heap[m].kind # "free"
CanAllocate == \E n \in Nodes : heap[n].kind = "free"

\* AbstractControl.constructor
AbstractControlNew(h, n, kind, validator) ==
  [h EXCEPT ![n] = [FreeNode EXCEPT !.kind = kind, !.validator = validator,
                                    !.pristine = TRUE]]

\* new Control(value, validator)
NewControl(v, validator) ==
  /\ Running /\ CanAllocate
  /\ LET n == NewNode
         h1 == AbstractControlNew(heap, n, "Control", validator)
         h2 == ControlSetValueErrorsStatus(h1, n, Scalar(v))
     IN  Return(Did(Did(Call(h2), "value", n), "validate", n),
                Op("Control", n, "", 0, Null, v))

\* Control.updateValue(value)
updateValue(n, v) ==
  /\ Running
  /\ heap[n].kind = "Control"
  /\ LET pre == IF lastOp.op = "removeAt" /\ lastOp.child = n
                THEN [NoPre EXCEPT !.set = TRUE] ELSE NoPre
     IN  Return(ControlUpdateValue(Call(heap), n, Scalar(v)),
                [Op("updateValue", n, "", 0, Null, v) EXCEPT !.pre = pre])

\* AbstractControl.updateValidity()
updateValidity(n) ==
  /\ Running
  /\ n \in Allocated(heap)
  /\ Return(UpdateValidity(Call(heap), n),
            Op("updateValidity", n, "", 0, Null, ""))

\* AbstractControl.setParent(parent); _parent is a ControlGroup, a
\* ControlArray or null (line 33), and the call gives the node another parent
setParent(n, p) ==
  /\ Running
  /\ n \in Allocated(heap)
  /\ p \in Containers(heap) \cup {Null}
  /\ p # heap[n].parent
  /\ Return(Call([heap EXCEPT ![n].parent = p]),
            Op("setParent", n, "", 0, p, ""))

\* ControlGroup._setParentForControls / ControlArray._setParentForControls
SetParentForControls(h, n) ==
  LET children == {h[n].controls[k] : k \in DOMAIN h[n].controls}
  IN  [m \in Nodes |-> IF m \in children THEN [h[m] EXCEPT !.parent = n] ELSE h[m]]

\* a ControlGroup constructor that goes through _updateValue
NewControlGroupViaUpdate(controls, optionals, validator) ==
  /\ Running /\ CanAllocate
  /\ LET n == NewNode
         h1 == AbstractControlNew(heap, n, "ControlGroup", validator)
         h2 == [h1 EXCEPT ![n].controls = controls, ![n].optionals = optionals]
         h3 == SetParentForControls(h2, n)
     IN  Return(GroupUpdateValue(Call(h3), n), Op("ControlGroup", n, "", 0, Null, ""))

\* new ControlGroup(controls, optionals, validator)
NewControlGroup(controls, optionals, validator) ==
  /\ Running /\ CanAllocate
  /\ LET n == NewNode
         h1 == AbstractControlNew(heap, n, "ControlGroup", validator)
         h2 == [h1 EXCEPT ![n].controls = controls, ![n].optionals = optionals]
         h3 == SetParentForControls(h2, n)
         h4 == GroupSetValueErrorsStatus(h3, n)
     IN  Return(Did(Did(Call(h4), "value", n), "validate", n),
                Op("ControlGroup", n, "", 0, Null, ""))

\* new ControlArray(controls, validator)
NewControlArray(controls, validator) ==
  /\ Running /\ CanAllocate
  /\ LET n == NewNode
         h1 == AbstractControlNew(heap, n, "ControlArray", validator)
         h2 == [h1 EXCEPT ![n].controls = controls]
         h3 == SetParentForControls(h2, n)
         h4 == ArraySetValueErrorsStatus(h3, n)
     IN  Return(Did(Did(Call(h4), "value", n), "validate", n),
                Op("ControlArray", n, "", 0, Null, ""))

\* StringMapWrapper.set(map, key, value): map[key] = value
MapSet(f, k, v) == [x \in DOMAIN f \cup {k} |-> IF x = k THEN v ELSE f[x]]

\* StringMapWrapper.delete(map, key)
MapDelete(f, k) == [x \in DOMAIN f \ {k} |-> f[x]]

\* ListWrapper.insert(list, index, value): list.splice(index, 0, value), index from 0
ListInsert(s, index, c) ==
  [i \in 1..(Len(s) + 1) |->
     IF i <= index THEN s[i] ELSE IF i = index + 1 THEN c ELSE s[i - 1]]

\* ListWrapper.removeAt(list, index): list.splice(index, 1), index from 0
ListRemoveAt(s, index) ==
  [i \in 1..(Len(s) - 1) |-> IF i <= index THEN s[i] ELSE s[i + 1]]

\* addControl that sets the parent of the control it stores
addControlSetParent(g, name, c) ==
  /\ Running
  /\ heap[g].kind = "ControlGroup"
  /\ c \in Allocated(heap)
  /\ Return(Call([heap EXCEPT ![g].controls = MapSet(heap[g].controls, name, c),
                              ![c].parent = g]),
            Op("addControl", g, name, 0, c, ""))

\* ControlGroup.addControl(name, c)
addControl(g, name, c) ==
  /\ Running
  /\ heap[g].kind = "ControlGroup"
  /\ c \in Allocated(heap)
  /\ Return(Call([heap EXCEPT ![g].controls = MapSet(heap[g].controls, name, c)]),
            Op("addControl", g, name, 0, c, ""))

\* ControlGroup.removeControl(name)
removeControl(g, name) ==
  /\ Running
  /\ heap[g].kind = "ControlGroup"
  /\ name \in DOMAIN heap[g].controls
  /\ Return(Call([heap EXCEPT ![g].controls = MapDelete(heap[g].controls, name)]),
            Op("removeControl", g, name, 0, Null, ""))

\* ControlGroup.include(controlName)
include(g, controlName) ==
  /\ Running
  /\ heap[g].kind = "ControlGroup"
  /\ LET h1 == [heap EXCEPT ![g].optionals = MapSet(heap[g].optionals, controlName, TRUE)]
         pre == IF lastOp.op = "exclude" /\ lastOp.node = g /\ lastOp.name = controlName
                THEN lastOp.pre ELSE NoPre
     IN  Return(GroupUpdateValue(Call(h1), g),
                [Op("include", g, controlName, 0, Null, "") EXCEPT !.pre = pre])

\* ControlGroup.exclude(controlName)
exclude(g, controlName) ==
  /\ Running
  /\ heap[g].kind = "ControlGroup"
  /\ LET h1 == [heap EXCEPT ![g].optionals = MapSet(heap[g].optionals, controlName, FALSE)]
         pre == [set |-> TRUE, value |-> heap[g].value, status |-> heap[g].status,
                 included |-> Contains(heap, g, controlName),
                 current |-> /\ heap[g].value = ReduceValue(heap, g)
                             /\ heap[g].errors = Validate(heap, g)]
     IN  Return(GroupUpdateValue(Call(h1), g),
                [Op("exclude", g, controlName, 0, Null, "") EXCEPT !.pre = pre])

\* push that marks the pushed control dirty
pushDirtyChild(a, c) ==
  /\ Running
  /\ heap[a].kind = "ControlArray"
  /\ c \in Allocated(heap)
  /\ Len(heap[a].controls) < MaxLen
  /\ LET h1 == [heap EXCEPT ![a].controls = Append(heap[a].controls, c)]
         h2 == [h1 EXCEPT ![c].parent = a, ![c].pristine = FALSE]
     IN  Return(ArrayUpdateValue(Call(h2), a),
                Op("push", a, "", Len(heap[a].controls), c, ""))

\* ControlArray.push(control)
push(a, c) ==
  /\ Running
  /\ heap[a].kind = "ControlArray"
  /\ c \in Allocated(heap)
  /\ Len(heap[a].controls) < MaxLen
  /\ LET h1 == [heap EXCEPT ![a].controls = Append(heap[a].controls, c)]
         h2 == [h1 EXCEPT ![c].parent = a]
     IN  Return(ArrayUpdateValue(Call(h2), a),
                Op("push", a, "", Len(heap[a].controls), c, ""))

\* insert that does not set the parent of the inserted control
insertNoSetParent(a, index, c) ==
  /\ Running
  /\ heap[a].kind = "ControlArray"
  /\ c \in Allocated(heap)
  /\ Len(heap[a].controls) < MaxLen
  /\ index \in 0..Len(heap[a].controls)
  /\ LET h1 == [heap EXCEPT ![a].controls = ListInsert(heap[a].controls, index, c)]
     IN  Return(ArrayUpdateValue(Call(h1), a), Op("insert", a, "", index, c, ""))

\* ControlArray.insert(index, control)
insert(a, index, c) ==
  /\ Running
  /\ heap[a].kind = "ControlArray"
  /\ c \in Allocated(heap)
  /\ Len(heap[a].controls) < MaxLen
  /\ index \in 0..Len(heap[a].controls)
  /\ LET h1 == [heap EXCEPT ![a].controls = ListInsert(heap[a].controls, index, c)]
         h2 == [h1 EXCEPT ![c].parent = a]
     IN  Return(ArrayUpdateValue(Call(h2), a), Op("insert", a, "", index, c, ""))

\* removeAt that clears the parent link of the control it removes
removeAtClearParent(a, index) ==
  /\ Running
  /\ heap[a].kind = "ControlArray"
  /\ index \in 0..(Len(heap[a].controls) - 1)
  /\ LET h1 == [heap EXCEPT ![a].controls = ListRemoveAt(heap[a].controls, index)]
         h2 == [h1 EXCEPT ![heap[a].controls[index + 1]].parent = Null]
     IN  Return(ArrayUpdateValue(Call(h2), a),
                Op("removeAt", a, "", index, heap[a].controls[index + 1], ""))

\* removeAt that does not recompute the array
removeAtNoUpdate(a, index) ==
  /\ Running
  /\ heap[a].kind = "ControlArray"
  /\ index \in 0..(Len(heap[a].controls) - 1)
  /\ LET h1 == [heap EXCEPT ![a].controls = ListRemoveAt(heap[a].controls, index)]
     IN  Return(Call(h1),
                Op("removeAt", a, "", index, heap[a].controls[index + 1], ""))

\* ControlArray.removeAt(index)
removeAt(a, index) ==
  /\ Running
  /\ heap[a].kind = "ControlArray"
  /\ index \in 0..(Len(heap[a].controls) - 1)
  /\ LET h1 == [heap EXCEPT ![a].controls = ListRemoveAt(heap[a].controls, index)]
     IN  Return(ArrayUpdateValue(Call(h1), a),
                Op("removeAt", a, "", index, heap[a].controls[index + 1], ""))

\* ------------------------------------------------------ inputs of the calls
\* string maps from some of the names to existing nodes, a node under one name
ControlMaps ==
  {f \in UNION {[S -> Allocated(heap)] : S \in SUBSET Names} :
     \A x, y \in DOMAIN f : x # y => f[x] # f[y]}
\* the optionals argument: absent (then {}) or a map from some names to a flag
OptionalMaps == UNION {[S -> {FALSE}] : S \in {{}, {"b"}}}
\* lists of existing nodes, a node at one index
ControlLists ==
  {cs \in UNION {[1..k -> Allocated(heap)] : k \in 0..MaxLen} :
     \A i, j \in 1..Len(cs) : i # j => cs[i] # cs[j]}

Init ==
  /\ heap = [n \in Nodes |-> FreeNode]
  /\ emitted = <<>>
  /\ trace = <<>>
  /\ fault = "none"
  /\ lastOp = NoOp
  /\ ops = 0

Next ==
  \/ \E v \in LeafValues, val \in {"nullValidator", "required"} : NewControl(v, val)
  \/ \E cs \in ControlMaps, os \in OptionalMaps : NewControlGroup(cs, os, "group")
  \/ \E cs \in ControlLists : NewControlArray(cs, "array")
  \/ \E n \in Nodes, v \in LeafValues : updateValue(n, v)
  \/ \E n \in Nodes : updateValidity(n)
  \/ \E n \in Nodes, p \in Nodes \cup {Null} : setParent(n, p)
  \/ \E g \in Nodes, name \in Names, c \in Nodes : addControl(g, name, c)
  \/ \E g \in Nodes, name \in Names : removeControl(g, name)
  \/ \E g \in Nodes, name \in Names : include(g, name)
  \/ \E g \in Nodes, name \in Names : exclude(g, name)
  \/ \E a \in Nodes, c \in Nodes : push(a, c)
  \/ \E a \in Nodes, c \in Nodes, i \in 0..MaxLen : insert(a, i, c)
  \/ \E a \in Nodes, i \in 0..MaxLen : removeAt(a, i)

Spec == Init /\ [][Next]_vars

\* ------------------------------------------------- structure of the heap
Slots(h, p) == DOMAIN h[p].controls
Children(h, p) == {h[p].controls[k] : k \in Slots(h, p)}
Holders(h, c) == {p \in Nodes : c \in Children(h, p)}

\* n, its parent, the parent's parent, ... : at most k nodes, ended by Null
RECURSIVE ParentChain(_, _, _)
ParentChain(h, n, k) ==
  IF n = Null \/ k = 0 THEN <<>> ELSE <<n>> \o ParentChain(h, h[n].parent, k - 1)

\* the nodes strictly above n along the parent links
Above(h, n) == {ParentChain(h, n, MaxNodes + 1)[i] : i \in 2..Len(ParentChain(h, n, MaxNodes + 1))}

\* the nodes held by the nodes of S, directly or through other containers
RECURSIVE Held(_, _, _)
Held(h, S, k) ==
  IF k = 0 THEN S ELSE Held(h, S \cup UNION {Children(h, c) : c \in S}, k - 1)
Below(h, p) == Held(h, Children(h, p), MaxNodes)

\* the containers that hold n, directly or through other containers
Ancestors(h, n) == {p \in Nodes : n \in Below(h, p)}

\* every node sits in at most one slot of at most one container, and no
\* container holds itself
Forest(h) ==
  /\ \A c \in Nodes : Cardinality(Holders(h, c)) <= 1
  /\ \A c, p \in Nodes : Cardinality({k \in Slots(h, p) : h[p].controls[k] = c}) <= 1
  /\ \A n \in Nodes : n \notin Below(h, n)

\* A well-formed tree: a forest in which the parent link of every held node
\* is the container that holds it.
TreeShaped(h) ==
  /\ Forest(h)
  /\ \A c \in Nodes : \A p \in Holders(h, c) : h[c].parent = p

\* what the value of a container should be, from its children as they are
Aggregation(h, p) ==
  IF h[p].kind = "ControlGroup"
  THEN MapValue([name \in {m \in DOMAIN h[p].controls :
                              ~(m \in DOMAIN h[p].optionals /\ h[p].optionals[m] = FALSE)}
                   |-> h[h[p].controls[name]].value])
  ELSE ListValue([i \in 1..Len(h[p].controls) |-> h[h[p].controls[i]].value])

Constructors == {"Control", "ControlGroup", "ControlArray"}
Mutations == {"updateValue", "include", "exclude", "push", "insert", "removeAt"}
Returned == fault = "none"

C3_StatusInvariant ==
  \A n \in Allocated(heap) :
    /\ heap[n].status \in {VALID, INVALID}
    /\ (heap[n].status = INVALID) <=> isPresent(heap[n].errors)

\* updateValidity has found a group INVALID through a child that addControl
\* put there (the value of the group has not caught up with it)
C3_Witness ==
  /\ lastOp.op = "updateValidity" /\ Returned
  /\ heap[lastOp.node].kind = "ControlGroup"
  /\ heap[lastOp.node].status = INVALID /\ isPresent(heap[lastOp.node].errors)
  /\ heap[lastOp.node].value # Aggregation(heap, lastOp.node)

\* ======================================================================
\* C4  Value consistency after any mutation: when updateValue, include,
\* exclude, push, insert, removeAt, addControl or removeControl has
\* returned on a container of a forest, the value of that container equals
\* the aggregation of its current (included) children's current values.
C4_ValueConsistentAfterMutation ==
  (lastOp.op \in (Mutations \ {"updateValue"}) \cup {"addControl", "removeControl"}
     /\ Returned /\ Forest(heap))
    => heap[lastOp.node].value = Aggregation(heap, lastOp.node)

\* ======================================================================
\* C5  Emission order and count: when Control.updateValue on a leaf has
\* returned, the emissions of the call are one per node of the chain
\* leaf, parent, ..., root, in that order: the first is the leaf's, each
\* next one is on the parent of the node before it, the last is on a node
\* without parent, and no node emits twice.
EmittedNode(i) == emitted[i][1]

C5_EmissionOrder ==
  (lastOp.op = "updateValue" /\ Returned)
    => /\ Len(emitted) >= 1
       /\ EmittedNode(1) = lastOp.node
       /\ \A i \in 1..(Len(emitted) - 1) : EmittedNode(i + 1) = heap[EmittedNode(i)].parent
       /\ heap[EmittedNode(Len(emitted))].parent = Null
       /\ \A i, j \in 1..Len(emitted) : i # j => EmittedNode(i) # EmittedNode(j)

\* leaf -> group -> group built by the constructors: three emissions
C5_Witness ==
  /\ lastOp.op = "updateValue" /\ Returned /\ TreeShaped(heap)
  /\ Len(emitted) = 3
  /\ heap[EmittedNode(1)].kind = "Control"
  /\ heap[EmittedNode(2)].kind = "ControlGroup"
  /\ heap[EmittedNode(3)].kind = "ControlGroup"
  /\ EmittedNode(1) \in Children(heap, EmittedNode(2))
  /\ EmittedNode(2) \in Children(heap, EmittedNode(3))

\* ======================================================================
\* C6  Exclusion round trip.
\* the entries of a group value, and whether some included child other than
\* those named in skip is invalid
ValueNames(v) == DOMAIN v[2]
SomeInvalidChild(h, g, skip) ==
  \E m \in DOMAIN h[g].controls \ skip :
    /\ ~(m \in DOMAIN h[g].optionals /\ h[g].optionals[m] = FALSE)
    /\ h[h[g].controls[m]].status = INVALID

\* after exclude(name): no entry for name, status decided by the others
AfterExclude ==
  (lastOp.op = "exclude" /\ Returned /\ TreeShaped(heap))
    => /\ lastOp.name \notin ValueNames(heap[lastOp.node].value)
       /\ (heap[lastOp.node].status = INVALID)
             <=> SomeInvalidChild(heap, lastOp.node, {lastOp.name})

\* after include(name) that follows: name is back with the child's value,
\* status takes the child into account again
AfterInclude ==
  (lastOp.op = "include" /\ lastOp.pre.set /\ Returned /\ TreeShaped(heap)
     /\ lastOp.name \in DOMAIN heap[lastOp.node].controls)
    => /\ lastOp.name \in ValueNames(heap[lastOp.node].value)
       /\ heap[lastOp.node].value[2][lastOp.name]
            = heap[heap[lastOp.node].controls[lastOp.name]].value
       /\ (heap[lastOp.node].status = INVALID) <=> SomeInvalidChild(heap, lastOp.node, {})

\* value and status are those from before the exclude
SameAsBeforeExclude ==
  /\ heap[lastOp.node].value = lastOp.pre.value
  /\ heap[lastOp.node].status = lastOp.pre.status

C7_RunToCompletion ==
  (lastOp.op \in Mutations)
    => /\ Returned
       /\ \A p \in Above(heap, lastOp.node) :
            \E i \in 1..Len(emitted) : EmittedNode(i) = p

\* ======================================================================
\* C8  Pristine monotonicity: a node is pristine when constructed, is not
\* pristine when a mutation on it, or on a node below it along the parent
\* links, has returned, and a node that is not pristine stays so in every
\* later step.
C8_PristineMonotone ==
  [][/\ \A n \in Allocated(heap) : ~heap[n].pristine => ~heap'[n].pristine
     /\ (lastOp'.op \in Constructors) => heap'[lastOp'.node].pristine
     /\ (lastOp'.op \in Mutations /\ fault' = "none")
          => \A n \in {lastOp'.node} \cup Above(heap', lastOp'.node) : ~heap'[n].pristine
    ]_vars

\* a dirty container has been through a later call
C8_Witness ==
  /\ lastOp.op \in {"updateValidity", "setParent", "addControl", "ControlGroup", "ControlArray"}
  /\ \E n \in Containers(heap) : ~heap[n].pristine /\ n # lastOp.node

\* ======================================================================
\* C9  Leaf acceptance: Control.updateValue(v) never fails, for any v; when
\* it is over the value of the leaf is v, the leaf is not pristine, and its
\* status is INVALID, with errors present, exactly when its validator
\* rejects v.
Rejects(validator, v) == validator = "required" /\ v = "null"

C9_LeafAcceptance ==
  (lastOp.op = "updateValue")
    => /\ Returned
       /\ heap[lastOp.node].value = Scalar(lastOp.val)
       /\ ~heap[lastOp.node].pristine
       /\ (heap[lastOp.node].status = INVALID)
             <=> Rejects(heap[lastOp.node].validator, lastOp.val)
       /\ (heap[lastOp.node].status = INVALID) <=> isPresent(heap[lastOp.node].errors)

\* ======================================================================
\* C10  ControlArray insertion: when insert(index, child), 0 <= index <=
\* length, has returned, the children are old[0..index), child, old[index..),
\* the parent of child is the array and, in a well-formed tree, the value of
\* the array is the list of its children's values in that order; push(child)
\* does what insert(length, child) does.
ValuesOf(h, cs) == ListValue([k \in 1..Len(cs) |-> h[cs[k]].value])

C11_Removal ==
  [][/\ (lastOp'.op = "removeAt" /\ fault' = "none")
          => LET a == lastOp'.node
                 i == lastOp'.index
                 old == heap[a].controls
                 new == heap'[a].controls
             IN  /\ lastOp'.child = old[i + 1]
                 /\ new = SubSeq(old, 1, i) \o SubSeq(old, i + 2, Len(old))
                 /\ Len(new) = Len(old) - 1
                 /\ \A k \in 1..Len(new) : new[k] = IF k <= i THEN old[k] ELSE old[k + 1]
                 /\ TreeShaped(heap') => heap'[a].value = ValuesOf(heap', new)
     /\ \A a \in Allocated(heap') :
          heap'[a].kind = "ControlArray"
            => Len(heap'[a].value[2]) = Len(heap'[a].controls)
    ]_vars

\* the first of two leaves has been removed: [null, 1] has become [1]
C11_Witness ==
  /\ lastOp.op = "removeAt" /\ Returned /\ TreeShaped(heap)
  /\ lastOp.index = 0
  /\ heap[lastOp.child].value = Scalar("null")
  /\ Len(heap[lastOp.node].controls) = 1
  /\ heap[lastOp.node].value = ListValue(<<Scalar("1")>>)

\* ======================================================================
\* C12  ControlGroup.contains(name) is true exactly when name is a key of
\* the children map and the child is included (name has no optional flag, or
\* the flag true); it is false for an excluded name and false for a name
\* that is not a child, whatever its flag, in every state.
C12_Contains ==
  \A g \in Allocated(heap) :
    heap[g].kind = "ControlGroup"
      => \A name \in Names :
           LET child == name \in DOMAIN heap[g].controls
               flagged == name \in DOMAIN heap[g].optionals
           IN  /\ Contains(heap, g, name)
                     <=> (child /\ ((~flagged) \/ heap[g].optionals[name] = TRUE))
               /\ (flagged /\ heap[g].optionals[name] = FALSE) => ~Contains(heap, g, name)
               /\ (~child) => ~Contains(heap, g, name)

\* a group with an excluded child under one name, and the other name
\* included without being a child: contains is false for both
C12_Witness ==
  /\ lastOp.op \in {"include", "exclude", "addControl", "removeControl"} /\ Returned
  /\ \E g \in Allocated(heap) : \E x, y \in Names :
       /\ heap[g].kind = "ControlGroup" /\ x # y
       /\ x \in DOMAIN heap[g].controls
       /\ x \in DOMAIN heap[g].optionals /\ heap[g].optionals[x] = FALSE
       /\ ~Contains(heap, g, x)
       /\ y \notin DOMAIN heap[g].controls
       /\ y \in DOMAIN heap[g].optionals /\ heap[g].optionals[y] = TRUE
       /\ ~Contains(heap, g, y)

\* ======================================================================
\* C13  ControlGroup.find(path) walks the segments from the group and
\* returns the node reached exactly when at every step the current node is
\* a ControlGroup with a child under the next segment; once a segment is
\* missing or the current node is not a ControlGroup the result is absent
\* and stays absent for the rest of the path (find does not fail); a path
\* given as a string "x/y" is the path of the segments x, y.
Paths == UNION {[1..k -> Names] : k \in 0..MaxPath}

\* the walks along path from g: node 0 is g, node i is the child of node i-1
\* under segment i, node i-1 being a ControlGroup
Walks(h, g, path) ==
  {w \in [0..Len(path) -> Nodes] :
     /\ w[0] = g
     /\ \A i \in 1..Len(path) :
          /\ h[w[i - 1]].kind = "ControlGroup"
          /\ path[i] \in DOMAIN h[w[i - 1]].controls
          /\ w[i] = h[w[i - 1]].controls[path[i]]}

C13_Find ==
  \A g \in Allocated(heap) :
    heap[g].kind = "ControlGroup"
      => /\ \A path \in Paths :
              LET r == Find(heap, g, path)
              IN  /\ (r # Null) <=> (Walks(heap, g, path) # {})
                  /\ \A w \in Walks(heap, g, path) : r = w[Len(path)]
                  /\ \A k \in 0..Len(path) :
                       Find(heap, g, SubSeq(path, 1, k)) = Null => r = Null
         /\ \A x, y \in Names :
              /\ FindString(heap, g, <<x>>) = Find(heap, g, <<x>>)
              /\ FindString(heap, g, <<x, "/", y>>) = Find(heap, g, <<x, y>>)
         /\ FindString(heap, g, <<>>) = Null

\* a root whose child a is a group that holds a group b and nothing else:
\* a/b is node b, a/a is absent, and so is a/b/a (past the leafless b)
C13_Witness ==
  \E g, m, n \in Allocated(heap) :
    /\ g # m /\ m # n /\ g # n
    /\ heap[g].kind = "ControlGroup" /\ heap[m].kind = "ControlGroup"
    /\ heap[n].kind = "ControlGroup"
    /\ Find(heap, g, <<"a">>) = m
    /\ Find(heap, g, <<"a", "b">>) = n
    /\ FindString(heap, g, <<"a", "/", "b">>) = n
    /\ Find(heap, g, <<"a", "a">>) = Null
    /\ Find(heap, g, <<"b", "a">>) = Null

\* ======================================================================
\* C14  updateValidity upward walk: when updateValidity() on a node has
\* returned, the validators that ran are those of the node, of its parent,
\* of the parent's parent, ... up to the node without parent, each once and
\* in that order, whether or not a status changed on the way; in a
\* well-formed tree each of these nodes has the errors its validator gives
\* on the node as it is, and the status that goes with them.
C14_ValidityWalk ==
  (lastOp.op = "updateValidity" /\ Returned)
    => LET chain == ParentChain(heap, lastOp.node, MaxNodes + 1)
       IN  /\ Len(chain) >= 1 /\ chain[1] = lastOp.node
           /\ heap[chain[Len(chain)]].parent = Null
           /\ Len(trace) = Len(chain)
           /\ \A i \in 1..Len(chain) : trace[i] = <<"validate", chain[i]>>
           /\ TreeShaped(heap)
                => \A i \in 1..Len(chain) :
                     /\ heap[chain[i]].errors = Validate(heap, chain[i])
                     /\ heap[chain[i]].status = StatusOf(Validate(heap, chain[i]))

\* updateValidity on a leaf two containers deep that was up to date: no
\* status has changed, and the walk went to the root
C14_Witness ==
  /\ lastOp.op = "updateValidity" /\ Returned /\ TreeShaped(heap)
  /\ heap[lastOp.node].kind = "Control"
  /\ Len(trace) = 3
  /\ trace[3][2] \in Ancestors(heap, lastOp.node)
  /\ heap[trace[3][2]].parent = Null

\* ======================================================================
\* C15  updateValidity is status-only: a call of updateValidity() on a node
\* changes nothing but errors and status of that node and of the nodes above
\* it along the parent links; value, pristine flag, parent, children and
\* optional flags of every node stay as they were, and nothing is emitted.
\* the fields of a node other than errors and status
Unvalidated(r) == [r EXCEPT !.errors = NullErrors, !.status = "undefined"]

C15_ValidityOnly ==
  [][(lastOp'.op = "updateValidity")
       => /\ \A m \in Nodes : Unvalidated(heap'[m]) = Unvalidated(heap[m])
          /\ \A m \in Nodes \ ({lastOp'.node} \cup Above(heap, lastOp'.node)) :
               heap'[m] = heap[m]
          /\ emitted' = <<>>
          /\ \A i \in 1..Len(trace') : trace'[i][1] = "validate"
    ]_vars

\* updateValidity on a group whose value was out of date (a child put there
\* by addControl is missing from it): it has its new status, INVALID through
\* that child, and its value is still out of date
C15_Witness ==
  /\ lastOp.op = "updateValidity" /\ Returned /\ Forest(heap)
  /\ heap[lastOp.node].kind = "ControlGroup"
  /\ heap[lastOp.node].pristine
  /\ heap[lastOp.node].value = MapValue(<<>>)
  /\ DOMAIN heap[lastOp.node].controls # {}
  /\ heap[lastOp.node].status = INVALID

\* ======================================================================
\* C16  addControl / removeControl frame: addControl(name, child) and
\* removeControl(name) change the children map of the group and nothing
\* else: no parent link, no value, errors, status or pristine flag of the
\* group or of any other node, and they emit nothing.  So an updateValue on
\* a child that has no parent (one stored by addControl only) changes that
\* child alone and emits on it alone: it does not reach the group.
C16_AddRemoveFrame ==
  [][/\ (lastOp'.op \in {"addControl", "removeControl"})
          => LET g == lastOp'.node
                 old == heap[g].controls
                 new == heap'[g].controls
             IN  /\ \A m \in Nodes \ {g} : heap'[m] = heap[m]
                 /\ [heap'[g] EXCEPT !.controls = <<>>] = [heap[g] EXCEPT !.controls = <<>>]
                 /\ emitted' = <<>> /\ trace' = <<>>
                 /\ (lastOp'.op = "addControl")
                      => /\ DOMAIN new = DOMAIN old \cup {lastOp'.name}
                         /\ new[lastOp'.name] = lastOp'.child
                         /\ \A k \in DOMAIN old \ {lastOp'.name} : new[k] = old[k]
                 /\ (lastOp'.op = "removeControl")
                      => /\ DOMAIN new = DOMAIN old \ {lastOp'.name}
                         /\ \A k \in DOMAIN new : new[k] = old[k]
     /\ (lastOp'.op = "updateValue" /\ heap[lastOp'.node].parent = Null)
          => /\ \A m \in Nodes \ {lastOp'.node} : heap'[m] = heap[m]
             /\ Len(emitted') = 1 /\ emitted'[1][1] = lastOp'.node
    ]_vars

\* a leaf that a group holds through addControl, and that has no parent,
\* has been updated: the group is still pristine with its empty value
C16_Witness ==
  /\ lastOp.op = "updateValue" /\ Returned /\ Forest(heap)
  /\ heap[lastOp.node].parent = Null
  /\ heap[lastOp.node].value = Scalar("1")
  /\ Len(emitted) = 1
  /\ \E g \in Holders(heap, lastOp.node) :
       /\ heap[g].kind = "ControlGroup"
       /\ heap[g].pristine
       /\ heap[g].value = MapValue(<<>>)

\* ======================================================================
\* C17  Stale parent after removal: removeAt(index) leaves the parent link
\* of the removed child as it was, so in a well-formed tree the parent of
\* the removed child is still the array.  When updateValue on a leaf whose
\* parent is an array that no longer holds it has returned, that array and
\* every node above it have been recomputed, are dirty and have emitted
\* once each, the children of the array are those it had, and (in a
\* well-formed tree) its value is the list of their values, without an
\* entry for the leaf.
EmissionsOn(log, n) == Cardinality({i \in 1..Len(log) : log[i][1] = n})
StepsOn(tr, step, n) == Cardinality({i \in 1..Len(tr) : tr[i] = <<step, n>>})

EmissionIndex(i) == Cardinality({j \in 1..i : trace[j][1] = "emit"})

C18_StepOrder ==
  (lastOp.op \in Mutations /\ Returned)
    => \A i \in 1..Len(trace) :
         (trace[i][1] = "emit")
           => LET n == trace[i][2]
              IN  /\ i >= 4
                  /\ trace[i - 3] = <<"value", n>>
                  /\ trace[i - 2] = <<"validate", n>>
                  /\ trace[i - 1] = <<"dirty", n>>
                  /\ ~heap[n].pristine
                  /\ emitted[EmissionIndex(i)][1] = n
                  /\ \A j \in (i + 1)..Len(trace) : trace[j][2] # n
                  /\ emitted[EmissionIndex(i)][2] = heap[n].value
                  /\ \A j \in 1..i : trace[j][2] \notin Above(heap, n)
                  /\ (heap[n].parent # Null)
                       => i < Len(trace) /\ trace[i + 1] = <<"value", heap[n].parent>>
                  /\ (heap[n].parent = Null) => i = Len(trace)

\* a leaf has been pushed on an array that a group holds: the array has
\* emitted its new one-entry value, and then the group its own
C18_Witness ==
  /\ lastOp.op = "push" /\ Returned /\ TreeShaped(heap)
  /\ Len(trace) = 8 /\ Len(emitted) = 2
  /\ emitted[1] = <<lastOp.node, ListValue(<<Scalar("1")>>)>>
  /\ heap[emitted[2][1]].kind = "ControlGroup"
  /\ emitted[2][1] = heap[lastOp.node].parent

\* ======================================================================
\* C19  Off-chain frame: a mutation entering at node n (updateValue on a
\* leaf; include, exclude, push, insert, removeAt on a container) changes
\* value, errors, status and pristine flag of no node other than n and the
\* nodes above n along the parent links; it emits on no other node and
\* runs the validator of no other node.
Derived(r) == <<r.value, r.errors, r.status, r.pristine>>

C19_OffChainFrame ==
  [][(lastOp'.op \in Mutations)
       => LET chain == {lastOp'.node} \cup Above(heap', lastOp'.node)
          IN  /\ \A m \in Nodes \ chain : Derived(heap'[m]) = Derived(heap[m])
              /\ \A i \in 1..Len(emitted') : emitted'[i][1] \in chain
              /\ \A i \in 1..Len(trace') : trace'[i][2] \in chain
    ]_vars

\* one of two leaves of a group has been updated: the group has followed,
\* the other leaf, INVALID, is still pristine and has not emitted
C19_Witness ==
  /\ lastOp.op = "updateValue" /\ Returned /\ TreeShaped(heap)
  /\ heap[lastOp.node].parent # Null
  /\ Len(emitted) = 2
  /\ \E m \in Children(heap, heap[lastOp.node].parent) :
       /\ m # lastOp.node
       /\ heap[m].pristine /\ heap[m].status = INVALID
       /\ \A i \in 1..Len(trace) : trace[i][2] # m

\* ======================================================================
\* C20  Construction state: a constructor returns a new node that is
\* pristine and has its value, errors and status computed: the value given
\* for a Control, the map of the children included under the optional
\* flags passed in for a ControlGroup, the list of all children's values
\* for a ControlArray.  The parent of every child passed in is the new
\* container, whatever it was before.  Nothing is emitted, and no other
\* field of any existing node changes: not the pristine flag, value, errors
\* or status of a child or of an earlier parent of a child.
ParentCleared(r) == [r EXCEPT !.parent = Null]

C20_Construction ==
  [][(lastOp'.op \in Constructors)
       => LET n == lastOp'.node
          IN  /\ heap[n].kind = "free" /\ heap'[n].kind = lastOp'.op
              /\ fault' = "none"
              /\ heap'[n].pristine /\ heap'[n].parent = Null
              /\ heap'[n].errors = Validate(heap', n)
              /\ heap'[n].status = StatusOf(heap'[n].errors)
              /\ (lastOp'.op = "Control") => heap'[n].value = Scalar(lastOp'.val)
              /\ (lastOp'.op = "ControlGroup")
                   => /\ heap'[n].value = Aggregation(heap', n)
                      /\ \A name \in DOMAIN heap'[n].optionals :
                           heap'[n].optionals[name] = FALSE
                             => name \notin ValueNames(heap'[n].value)
              /\ (lastOp'.op = "ControlArray")
                   => heap'[n].value = ValuesOf(heap', heap'[n].controls)
              /\ \A c \in Children(heap', n) : heap'[c].parent = n
              /\ emitted' = <<>>
              /\ \A i \in 1..Len(trace') : trace'[i][1] \in {"value", "validate"}
              /\ \A m \in Nodes \ {n} : ParentCleared(heap'[m]) = ParentCleared(heap[m])
              /\ \A m \in Nodes \ ({n} \cup Children(heap', n)) : heap'[m] = heap[m]
    ]_vars

\* a group has been constructed over a dirty leaf that another, dirty, group
\* holds, with the flag false for it: the new group is pristine with an
\* empty value and is the parent of the leaf; leaf and old group are dirty
C20_Witness ==
  /\ lastOp.op = "ControlGroup" /\ Returned
  /\ heap[lastOp.node].pristine
  /\ heap[lastOp.node].value = MapValue(<<>>)
  /\ \E name \in DOMAIN heap[lastOp.node].controls :
       LET c == heap[lastOp.node].controls[name]
       IN  /\ name \in DOMAIN heap[lastOp.node].optionals
           /\ heap[lastOp.node].optionals[name] = FALSE
           /\ heap[c].parent = lastOp.node
           /\ ~heap[c].pristine
           /\ \E g \in Holders(heap, c) \ {lastOp.node} :
                ~heap[g].pristine /\ heap[g].value = Aggregation(heap, g)
====
